---- MODULE Spec2Model ----
(***************************************************************************)
(* readlinks: step-wise symbolic link resolution (src/src/lib.rs).         *)
(*                                                                         *)
(* A path is a sequence of tokens: the separator "/", the dot "." or a     *)
(* file name.  "/a//b/" is <<"/","a","/","/","b","/">>.  The filesystem is *)
(* a tree of entries below the root; the working directory is the root.    *)
(***************************************************************************)
EXTENDS Integers, Sequences, FiniteSets, TLC

VARIABLES fs, it, start, from, out, ret, probed, calls, nfind, errs, changes,
          env, proc

vars == <<fs, it, start, from, out, ret, probed, calls, nfind, errs, changes,
          env, proc>>

(***************************************************************************)
(* Bounds of the model.                                                    *)
(***************************************************************************)
MaxEntries == 3      \* entries of the filesystem besides the root
MaxCalls == 4        \* calls of next() on one iterator
MaxSymlinks == 2     \* links the kernel follows inside one lookup
MaxChanges == 2      \* changes of the filesystem while iterators run

Sep == "/"
Dot == "."
Names == {"a", "b"}
Its == {1, 2}

Last(s) == s[Len(s)]
Front(s) == SubSeq(s, 1, Len(s) - 1)

(***************************************************************************)
(* std::path on Unix.                                                      *)
(***************************************************************************)
\* Path::is_absolute / has_root: the path starts with a separator.
is_absolute(p) == Len(p) > 0 /\ p[1] = Sep

\* PathBuf::push: an absolute argument replaces the buffer; otherwise a
\* separator is added unless the buffer is empty or already ends with one.
push(buf, p) ==
    IF is_absolute(p) THEN p
    ELSE IF Len(buf) > 0 /\ Last(buf) # Sep THEN buf \o <<Sep>> \o p
    ELSE buf \o p

\* Components: the iterator state is the unread slice and whether the front
\* is still at the start of the path (State::StartDir) or in its body.
components(p) == [rest |-> p, atStart |-> TRUE]

\* The start of a path yields RootDir for a leading separator and CurDir for
\* a leading dot; in the body empty components and dots are skipped.
RECURSIVE Components_next(_)
Components_next(c) ==
    IF c.rest = <<>> THEN [some |-> FALSE, part |-> "", parts |-> [rest |-> <<>>, atStart |-> FALSE]]
    ELSE IF c.atStart /\ Head(c.rest) \in {Sep, Dot}
         THEN [some |-> TRUE, part |-> Head(c.rest),
               parts |-> [rest |-> Tail(c.rest), atStart |-> FALSE]]
    ELSE IF Head(c.rest) \in {Sep, Dot}
         THEN Components_next([rest |-> Tail(c.rest), atStart |-> FALSE])
    ELSE [some |-> TRUE, part |-> Head(c.rest),
          parts |-> [rest |-> Tail(c.rest), atStart |-> FALSE]]

\* All the components of a path, in order (Path equality compares these).
RECURSIVE Components_collect(_)
Components_collect(c) ==
    LET nx == Components_next(c)
    IN  IF nx.some THEN <<nx.part>> \o Components_collect(nx.parts) ELSE <<>>

Components(p) == Components_collect(components(p))

\* Components::trim_left / trim_right: drop separators and dots at an end.
RECURSIVE trim_left(_)
trim_left(s) ==
    IF s # <<>> /\ Head(s) \in {Sep, Dot} THEN trim_left(Tail(s)) ELSE s

RECURSIVE trim_right(_, _)
trim_right(s, floor) ==
    IF Len(s) > floor /\ Last(s) \in {Sep, Dot} THEN trim_right(Front(s), floor) ELSE s

\* What precedes the body: a leading separator or a leading dot.
len_before_body(c) ==
    IF c.atStart /\ c.rest # <<>> /\ Head(c.rest) \in {Sep, Dot} THEN 1 ELSE 0

\* Components::as_path: the unread slice, trimmed where an end is in the body.
as_path(c) ==
    LET left == IF c.atStart THEN c.rest ELSE trim_left(c.rest)
    IN  trim_right(left, len_before_body([rest |-> left, atStart |-> c.atStart]))

\* A variant for which a path of one relative component has no parent.
parent_never_empty(p) ==
    LET floor == len_before_body(components(p))
        body == trim_right(p, floor)
    IN  IF Len(body) > floor /\ trim_right(Front(body), floor) # <<>>
        THEN [some |-> TRUE, path |-> trim_right(Front(body), floor)]
        ELSE [some |-> FALSE, path |-> <<>>]

\* Path::parent: the path without its last component; none when the last
\* component is the root, or when there is no component at all.
parent(p) ==
    LET floor == len_before_body(components(p))
        body == trim_right(p, floor)
    IN  IF Len(body) > floor
        THEN [some |-> TRUE, path |-> trim_right(Front(body), floor)]
        ELSE IF body # <<>> /\ Head(body) = Dot
        THEN [some |-> TRUE, path |-> <<>>]
        ELSE [some |-> FALSE, path |-> <<>>]

(***************************************************************************)
(* The filesystem: every node below the root has an entry.  A "locked"     *)
(* entry is a directory without search permission.                         *)
(***************************************************************************)
Nodes == {<<x>> : x \in Names} \cup {<<x, y>> : x \in Names, y \in Names}

LinkTargets == { <<"/", "b">>, <<"b">>, <<"a">>, <<"b", "/", "a">> }

Missing == [kind |-> "missing", target |-> <<>>]
Entries ==
    {[kind |-> k, target |-> <<>>] : k \in {"missing", "file", "dir", "locked"}}
    \cup {[kind |-> "link", target |-> t] : t \in LinkTargets}

Entry(f, node) == IF node \in DOMAIN f THEN f[node] ELSE Missing

\* Only a directory has entries below it.
WellFormedFS(f) ==
    \A n \in Nodes :
        (Len(n) > 1 /\ f[n].kind # "missing") => f[Front(n)].kind \in {"dir", "locked"}

Present(f) == {n \in Nodes : f[n].kind # "missing"}

Filesystems ==
    {f \in [Nodes -> Entries] : WellFormedFS(f) /\ Cardinality(Present(f)) <= MaxEntries}

\* The names the kernel walks: separators and dots select nothing.
KernelNames(p) == SelectSeq(p, LAMBDA t : t \notin {Sep, Dot})

\* lstat(2): walk the names from directory cur; the entry of the last name is
\* returned without following it, a link before it is followed.
RECURSIVE Lookup(_, _, _, _)
Lookup(f, cur, names, fuel) ==
    IF names = <<>> THEN [err |-> "none", entry |-> [kind |-> "dir", target |-> <<>>]]
    ELSE LET node == Append(cur, Head(names))
             e == Entry(f, node)
         IN  IF Len(names) = 1
             THEN IF e.kind = "missing" THEN [err |-> "ENOENT", entry |-> Missing]
                  ELSE [err |-> "none", entry |-> e]
             ELSE CASE e.kind = "missing" -> [err |-> "ENOENT", entry |-> Missing]
                    [] e.kind = "file" -> [err |-> "ENOTDIR", entry |-> Missing]
                    [] e.kind = "locked" -> [err |-> "EACCES", entry |-> Missing]
                    [] e.kind = "dir" -> Lookup(f, node, Tail(names), fuel)
                    [] e.kind = "link" ->
                         IF fuel = 0 THEN [err |-> "ELOOP", entry |-> Missing]
                         ELSE Lookup(f, IF is_absolute(e.target) THEN <<>> ELSE cur,
                                     KernelNames(e.target) \o Tail(names), fuel - 1)

\* fs::symlink_metadata: the empty path does not exist.
symlink_metadata(f, p) ==
    IF p = <<>> THEN [err |-> "ENOENT", entry |-> Missing]
    ELSE Lookup(f, <<>>, KernelNames(p), MaxSymlinks)

\* io::Error::kind: only ENOENT is ErrorKind::NotFound.
ErrorKind(err) == IF err = "ENOENT" THEN "NotFound" ELSE "Other"

(***************************************************************************)
(* src/src/lib.rs                                                          *)
(***************************************************************************)
Symlink(source, target, suffix) ==
    [kind |-> "Symlink", source |-> source, target |-> target, suffix |-> suffix]
NotLink(p) == [kind |-> "NotLink", path |-> p]

\* A variant that joins the target to the link itself, not to its parent.
SymlinkPath_resolve_from_source(sp) ==
    IF sp.kind = "NotLink" THEN sp.path
    ELSE LET resolved == push(sp.source, sp.target)
         IN  IF Components(sp.suffix) # <<>> THEN push(resolved, sp.suffix)
             ELSE resolved

\* SymlinkPath::resolve
SymlinkPath_resolve(sp) ==
    IF sp.kind = "NotLink" THEN sp.path
    ELSE LET resolved == push(parent(sp.source).path, sp.target)
         IN  IF Components(sp.suffix) # <<>> THEN push(resolved, sp.suffix)
             ELSE resolved

\* readlink: Ok(None) for what is no link, Ok(Some(target)) for a link, and
\* the error of the metadata query otherwise.
readlink(f, p) ==
    LET metadata == symlink_metadata(f, p)
    IN  IF metadata.err # "none"
        THEN [err |-> metadata.err, some |-> FALSE, target |-> <<>>]
        ELSE IF metadata.entry.kind # "link"
        THEN [err |-> "none", some |-> FALSE, target |-> <<>>]
        ELSE [err |-> "none", some |-> TRUE, target |-> metadata.entry.target]

\* A variant whose suffix is taken before the link's component is consumed.
RECURSIVE find_symlink_loop_early_suffix(_, _, _, _)
find_symlink_loop_early_suffix(f, prefix, parts, log) ==
    LET nx == Components_next(parts)
    IN  IF ~nx.some
        THEN [err |-> "none", path |-> NotLink(prefix), probed |-> log]
        ELSE LET prefix2 == push(prefix, <<nx.part>>)
                 r == readlink(f, prefix2)
                 log2 == Append(log, prefix2)
             IN  IF r.err # "none"
                 THEN [err |-> r.err, path |-> NotLink(<<>>), probed |-> log2]
                 ELSE IF r.some
                 THEN [err |-> "none",
                       path |-> Symlink(prefix2, r.target, as_path(parts)),
                       probed |-> log2]
                 ELSE find_symlink_loop_early_suffix(f, prefix2, nx.parts, log2)

\* A variant that scans on past a link and reports the last link it met.
RECURSIVE find_symlink_loop_last_link(_, _, _, _)
find_symlink_loop_last_link(f, prefix, parts, log) ==
    LET nx == Components_next(parts)
    IN  IF ~nx.some
        THEN [err |-> "none", path |-> NotLink(prefix), probed |-> log]
        ELSE LET prefix2 == push(prefix, <<nx.part>>)
                 r == readlink(f, prefix2)
                 log2 == Append(log, prefix2)
             IN  IF r.err # "none"
                 THEN [err |-> r.err, path |-> NotLink(<<>>), probed |-> log2]
                 ELSE IF r.some
                 THEN LET rest == find_symlink_loop_last_link(f, prefix2, nx.parts, log2)
                      IN  IF rest.err = "none" /\ rest.path.kind = "Symlink"
                          THEN rest
                          ELSE [err |-> "none",
                                path |-> Symlink(prefix2, r.target, as_path(nx.parts)),
                                probed |-> rest.probed]
                 ELSE find_symlink_loop_last_link(f, prefix2, nx.parts, log2)

\* find_symlink: the loop over the components of the path.
RECURSIVE find_symlink_loop(_, _, _, _)
find_symlink_loop(f, prefix, parts, log) ==
    LET nx == Components_next(parts)
    IN  IF ~nx.some
        THEN [err |-> "none", path |-> NotLink(prefix), probed |-> log]
        ELSE LET prefix2 == push(prefix, <<nx.part>>)
                 r == readlink(f, prefix2)
                 log2 == Append(log, prefix2)
             IN  IF r.err # "none"
                 THEN [err |-> r.err, path |-> NotLink(<<>>), probed |-> log2]
                 ELSE IF r.some
                 THEN [err |-> "none",
                       path |-> Symlink(prefix2, r.target, as_path(nx.parts)),
                       probed |-> log2]
                 ELSE find_symlink_loop(f, prefix2, nx.parts, log2)

find_symlink(f, p) == find_symlink_loop(f, <<>>, components(p), <<>>)

\* ReadlinksIterator::next on iterator state self = [path, done] gives the
\* new state, the returned item, the prefixes probed, the searches made and
\* the lines written to stderr.
None == [kind |-> "None"]
Panic == [kind |-> "Panic"]

\* if self.done { return None }
next_done(self) ==
    [self |-> self, item |-> None, probed |-> <<>>, finds |-> 0, eprint |-> 0]

\* A variant that forgets to set done on a NotLink.
next_ok_never_done(self, r) ==
    IF r.path.kind = "Symlink" /\ ~parent(r.path.source).some
    THEN [self |-> self, item |-> Panic, probed |-> r.probed, finds |-> 1, eprint |-> 0]
    ELSE [self |-> [path |-> SymlinkPath_resolve(r.path), done |-> self.done],
          item |-> r.path, probed |-> r.probed, finds |-> 1, eprint |-> 0]

\* A variant that sets done after any hop.
next_ok_always_done(self, r) ==
    IF r.path.kind = "Symlink" /\ ~parent(r.path.source).some
    THEN [self |-> self, item |-> Panic, probed |-> r.probed, finds |-> 1, eprint |-> 0]
    ELSE [self |-> [path |-> SymlinkPath_resolve(r.path), done |-> TRUE],
          item |-> r.path, probed |-> r.probed, finds |-> 1, eprint |-> 0]

\* A variant that sets done on a NotLink and returns None in its place.
next_ok_swallows_terminal(self, r) ==
    IF r.path.kind = "Symlink" /\ ~parent(r.path.source).some
    THEN [self |-> self, item |-> Panic, probed |-> r.probed, finds |-> 1, eprint |-> 0]
    ELSE [self |-> [path |-> SymlinkPath_resolve(r.path),
                    done |-> IF r.path.kind = "NotLink" THEN TRUE ELSE self.done],
          item |-> IF r.path.kind = "NotLink" THEN None ELSE r.path,
          probed |-> r.probed, finds |-> 1, eprint |-> 0]

\* A variant that leaves the cursor where it was.
next_ok_keeps_cursor(self, r) ==
    IF r.path.kind = "Symlink" /\ ~parent(r.path.source).some
    THEN [self |-> self, item |-> Panic, probed |-> r.probed, finds |-> 1, eprint |-> 0]
    ELSE [self |-> [path |-> self.path,
                    done |-> IF r.path.kind = "NotLink" THEN TRUE ELSE self.done],
          item |-> r.path, probed |-> r.probed, finds |-> 1, eprint |-> 0]

\* Ok(symlink_path): a NotLink sets done; the cursor becomes the resolved
\* path and the hop is returned.  The unwrap of a missing parent panics.
next_ok(self, r) ==
    IF r.path.kind = "Symlink" /\ ~parent(r.path.source).some
    THEN [self |-> self, item |-> Panic, probed |-> r.probed, finds |-> 1, eprint |-> 0]
    ELSE [self |-> [path |-> SymlinkPath_resolve(r.path),
                    done |-> IF r.path.kind = "NotLink" THEN TRUE ELSE self.done],
          item |-> r.path, probed |-> r.probed, finds |-> 1, eprint |-> 0]

\* A variant that reports the prefix found missing instead of the cursor.
next_not_found_prefix(self, r) ==
    [self |-> [path |-> self.path, done |-> TRUE],
     item |-> NotLink(Last(r.probed)), probed |-> r.probed, finds |-> 1, eprint |-> 0]

\* A variant that forgets to set done.
next_not_found_not_done(self, r) ==
    [self |-> self, item |-> NotLink(self.path), probed |-> r.probed,
     finds |-> 1, eprint |-> 0]

\* Err(e) if e.kind() == NotFound: done, and a NotLink of the cursor.
next_not_found(self, r) ==
    [self |-> [path |-> self.path, done |-> TRUE],
     item |-> NotLink(self.path), probed |-> r.probed, finds |-> 1, eprint |-> 0]

\* A variant that sets done after the message.
next_err_sets_done(self, r) ==
    [self |-> [path |-> self.path, done |-> TRUE], item |-> None,
     probed |-> r.probed, finds |-> 1, eprint |-> 1]

\* Err(e): a line on stderr and None; no field is assigned.
next_err(self, r) ==
    [self |-> self, item |-> None, probed |-> r.probed, finds |-> 1, eprint |-> 1]

\* A variant without the test of done.
next_ignoring_done(f, self) ==
    LET r == find_symlink(f, self.path)
    IN  IF r.err = "none" THEN next_ok(self, r)
        ELSE IF ErrorKind(r.err) = "NotFound" THEN next_not_found(self, r)
        ELSE next_err(self, r)

next(f, self) ==
    IF self.done THEN next_done(self)
    ELSE LET r == find_symlink(f, self.path)
         IN  IF r.err = "none" THEN next_ok(self, r)
             ELSE IF ErrorKind(r.err) = "NotFound" THEN next_not_found(self, r)
             ELSE next_err(self, r)

\* A variant that computes the first hop at once.
resolve_eager(p) == next(fs, [path |-> p, done |-> FALSE]).self

\* resolve: the iterator for a path; nothing is probed.
resolve(p) == [path |-> p, done |-> FALSE]

\* stat(2): as lstat, but a link in the last place is followed too.
RECURSIVE Follow(_, _, _, _)
Follow(f, cur, names, fuel) ==
    IF names = <<>> THEN [err |-> "none", entry |-> [kind |-> "dir", target |-> <<>>]]
    ELSE LET node == Append(cur, Head(names))
             e == Entry(f, node)
         IN  CASE e.kind = "missing" -> [err |-> "ENOENT", entry |-> Missing]
               [] e.kind = "link" ->
                    IF fuel = 0 THEN [err |-> "ELOOP", entry |-> Missing]
                    ELSE Follow(f, IF is_absolute(e.target) THEN <<>> ELSE cur,
                                KernelNames(e.target) \o Tail(names), fuel - 1)
               [] OTHER ->
                    IF Len(names) = 1 THEN [err |-> "none", entry |-> e]
                    ELSE IF e.kind = "file" THEN [err |-> "ENOTDIR", entry |-> Missing]
                    ELSE IF e.kind = "locked" THEN [err |-> "EACCES", entry |-> Missing]
                    ELSE Follow(f, node, Tail(names), fuel)

\* fs::metadata: the empty path does not exist, and a path that ends with a
\* separator has to be a directory.
metadata(f, p) ==
    IF p = <<>> THEN [err |-> "ENOENT", entry |-> Missing]
    ELSE LET m == Follow(f, <<>>, KernelNames(p), MaxSymlinks)
         IN  IF m.err = "none" /\ m.entry.kind = "file" /\ Last(p) = Sep
             THEN [err |-> "ENOTDIR", entry |-> Missing]
             ELSE m

\* Path::is_file
is_file(f, p) ==
    LET m == metadata(f, p) IN m.err = "none" /\ m.entry.kind = "file"

\* A variant that takes the last directory of PATH that has the file.
RECURSIVE find_bin_last(_, _, _)
find_bin_last(f, dirs, exe) ==
    IF dirs = <<>> THEN [some |-> FALSE, path |-> <<>>]
    ELSE LET bin == push(Last(dirs), exe)
         IN  IF is_file(f, bin) THEN [some |-> TRUE, path |-> bin]
             ELSE find_bin_last(f, Front(dirs), exe)

\* split_paths(paths).map(|prefix| prefix.join(exe)).find(|bin| bin.is_file())
RECURSIVE find_bin(_, _, _)
find_bin(f, dirs, exe) ==
    IF dirs = <<>> THEN [some |-> FALSE, path |-> <<>>]
    ELSE LET bin == push(Head(dirs), exe)
         IN  IF is_file(f, bin) THEN [some |-> TRUE, path |-> bin]
             ELSE find_bin(f, Tail(dirs), exe)

\* path.components().take(2).count()
take2_count(p) == IF Len(Components(p)) > 2 THEN 2 ELSE Len(Components(p))

\* A variant that searches PATH whatever the number of components.
expand_path_unfiltered(e, f, path) ==
    LET found == IF e.set THEN find_bin(f, e.dirs, path)
                 ELSE [some |-> FALSE, path |-> <<>>]
    IN  IF found.some THEN found.path ELSE path

\* expand_path with the environment e and the filesystem f.
expand_path(e, f, path) ==
    LET found == IF take2_count(path) = 1 /\ e.set THEN find_bin(f, e.dirs, path)
                 ELSE [some |-> FALSE, path |-> <<>>]
    IN  IF found.some THEN found.path ELSE path

(***************************************************************************)
(* The state machine.  it[i] is iterator i (live once resolve() made it),  *)
(* start[i] the path it was made from, from[i] the cursor its last next()  *)
(* started from, out[i] the hops it has emitted,                           *)
(* ret[i] what its last next() returned, probed[i] the prefixes that call  *)
(* probed, calls[i] its calls of next(), nfind[i] its searches and errs[i] *)
(* its lines on stderr; changes counts the changes of the filesystem.      *)
(* env is the PATH variable of the process and proc the run of main().     *)
(***************************************************************************)
\* PATH unset, and no process started.
NoPath == [set |-> FALSE, dirs |-> <<>>]
NoProcess == [pc |-> "none", verbose |-> FALSE, arg |-> <<>>, path |-> <<>>,
              lines |-> 0, status |-> -1]

StartPaths ==
    { <<>>, <<"/">>, <<"/", "a">>, <<"/", "b">>, <<"a">>, <<".", "/", "a">>,
      <<"/", "a", "/", "b">>, <<"/", "b", "/", "a">>, <<"a", "/", "b">>,
      <<"/", "a", "/", "/", "b", "/">>, <<"b", "/", ".", "/", "a">>,
      <<"/", "a", "/", "b", "/", "a">> }

NoIterator == [live |-> FALSE, path |-> <<>>, done |-> FALSE]
NoCall == [kind |-> "NoCall"]

InitIterators ==
    /\ it = [i \in Its |-> NoIterator]
    /\ start = [i \in Its |-> <<>>]
    /\ from = [i \in Its |-> <<>>]
    /\ out = [i \in Its |-> <<>>]
    /\ ret = [i \in Its |-> NoCall]
    /\ probed = [i \in Its |-> <<>>]
    /\ calls = [i \in Its |-> 0]
    /\ nfind = [i \in Its |-> 0]
    /\ errs = [i \in Its |-> 0]
    /\ changes = 0
    /\ proc = NoProcess

\* Any filesystem of the family, and no iterator yet.
Init == fs \in Filesystems /\ env = NoPath /\ InitIterators

\* The empty filesystem, which the environment then fills.
EmptyFS == [n \in Nodes |-> Missing]
InitDyn == fs = EmptyFS /\ env = NoPath /\ InitIterators

\* let it = resolve(p);
Resolve(i, p) ==
    /\ ~it[i].live
    /\ it' = [it EXCEPT ![i] = [live |-> TRUE, path |-> resolve(p).path,
                                done |-> resolve(p).done]]
    /\ start' = [start EXCEPT ![i] = p]
    /\ UNCHANGED <<fs, from, out, ret, probed, calls, nfind, errs, changes, env, proc>>

\* A variant whose cursor and flag are one location shared by the iterators.
NextCall_shared(i) ==
    /\ it[i].live
    /\ calls[i] < MaxCalls
    /\ LET r == next(fs, [path |-> it[i].path, done |-> it[i].done])
       IN  /\ it' = [j \in Its |-> IF it[j].live
                                   THEN [live |-> TRUE, path |-> r.self.path,
                                         done |-> r.self.done]
                                   ELSE it[j]]
           /\ from' = [from EXCEPT ![i] = it[i].path]
           /\ ret' = [ret EXCEPT ![i] = r.item]
           /\ out' = [out EXCEPT ![i] =
                        IF r.item.kind \in {"Symlink", "NotLink"} THEN Append(@, r.item) ELSE @]
           /\ probed' = [probed EXCEPT ![i] = r.probed]
           /\ calls' = [calls EXCEPT ![i] = @ + 1]
           /\ nfind' = [nfind EXCEPT ![i] = @ + r.finds]
           /\ errs' = [errs EXCEPT ![i] = @ + r.eprint]
    /\ UNCHANGED <<fs, start, changes, env, proc>>

\* it.next(): the call and what it leaves in the iterator.
Call(i) ==
    /\ it[i].live
    /\ calls[i] < MaxCalls
    /\ LET r == next(fs, [path |-> it[i].path, done |-> it[i].done])
       IN  /\ it' = [it EXCEPT ![i] = [live |-> TRUE, path |-> r.self.path,
                                       done |-> r.self.done]]
           /\ from' = [from EXCEPT ![i] = it[i].path]
           /\ ret' = [ret EXCEPT ![i] = r.item]
           /\ out' = [out EXCEPT ![i] =
                        IF r.item.kind \in {"Symlink", "NotLink"} THEN Append(@, r.item) ELSE @]
           /\ probed' = [probed EXCEPT ![i] = r.probed]
           /\ calls' = [calls EXCEPT ![i] = @ + 1]
           /\ nfind' = [nfind EXCEPT ![i] = @ + r.finds]
           /\ errs' = [errs EXCEPT ![i] = @ + r.eprint]

\* it.next();
NextCall(i) == Call(i) /\ UNCHANGED <<fs, start, changes, env, proc>>

\* The environment replaces one entry of the filesystem.
Change(n, e) ==
    /\ changes < MaxChanges
    /\ fs[n] # e
    /\ [fs EXCEPT ![n] = e] \in Filesystems
    /\ fs' = [fs EXCEPT ![n] = e]
    /\ changes' = changes + 1
    /\ UNCHANGED <<it, start, from, out, ret, probed, calls, nfind, errs, env, proc>>

\* One resolution sequence over a static filesystem.
Next ==
    \/ \E p \in StartPaths : Resolve(1, p)
    \/ NextCall(1)

Spec == Init /\ [][Next]_vars

\* The consumer keeps calling next(): weak fairness of NextCall(1), with
\* ENABLED <<NextCall(1)>>_vars written out (a call always counts in calls).
CanCall(i) == it[i].live /\ calls[i] < MaxCalls

FairCalls == ([]<>(~CanCall(1))) \/ ([]<><<NextCall(1)>>_vars)

SpecFair == Spec /\ FairCalls

\* Two resolution sequences over one static filesystem, their calls
\* interleaved in any order.
PairPaths == { <<"/", "a">>, <<"b", "/", ".", "/", "a">> }

NextPair ==
    \E i \in Its :
        \/ \E p \in PairPaths : Resolve(i, p)
        \/ NextCall(i)

SpecPair == Init /\ [][NextPair]_vars

\* The values of PATH: unset, or a list of directories (an empty item of
\* the list is the empty path).
PathVars ==
    { NoPath } \cup
    { [set |-> TRUE, dirs |-> d] :
        d \in { <<<<"/">>>>, <<<<"/", "a">>>>,
                <<<<"/">>, <<"/", "a">>>>, <<<<"/", "a">>, <<"/">>>>,
                <<<<>>, <<"/", "a">>>>, <<<<"/", "b">>, <<"/", "a">>>> } }

\* The arguments of the command line.
Args == StartPaths \cup { <<"b">>, <<"a", "/">> }

InitMain == fs \in Filesystems /\ env \in PathVars /\ InitIterators

\* let path = expand_path(path);
Expand(arg) ==
    /\ proc.pc = "none"
    /\ proc' = [proc EXCEPT !.pc = "expanded", !.arg = arg,
                            !.path = expand_path(env, fs, arg)]
    /\ UNCHANGED <<fs, it, start, from, out, ret, probed, calls, nfind, errs, changes, env>>

\* The expansion of a command-line argument.
NextExpand == \E arg \in Args : Expand(arg)

SpecExpand == InitMain /\ [][NextExpand]_vars

\* let verbose = args.is_present("verbose");
\* println!("{}", path.display()); and the iterator over that path.
MainResolve(verbose) ==
    /\ proc.pc = "expanded"
    /\ ~it[1].live
    /\ it' = [it EXCEPT ![1] = [live |-> TRUE, path |-> resolve(proc.path).path,
                                done |-> resolve(proc.path).done]]
    /\ start' = [start EXCEPT ![1] = proc.path]
    /\ proc' = [proc EXCEPT !.pc = "iter", !.verbose = verbose, !.lines = 1]
    /\ UNCHANGED <<fs, from, out, ret, probed, calls, nfind, errs, changes, env>>

\* One turn of for_each: a hop is printed (two lines for a link when
\* verbose); None ends the loop and main returns Ok(()), exit status 0; a
\* panic ends the process with status 101.
MainNext ==
    /\ proc.pc = "iter"
    /\ Call(1)
    /\ proc' = CASE ret'[1].kind = "Symlink" ->
                     [proc EXCEPT !.lines = @ + (IF proc.verbose THEN 2 ELSE 1)]
                [] ret'[1].kind = "NotLink" -> [proc EXCEPT !.lines = @ + 1]
                [] ret'[1] = None -> [proc EXCEPT !.pc = "exit", !.status = 0]
                [] OTHER -> [proc EXCEPT !.pc = "exit", !.status = 101]
    /\ UNCHANGED <<fs, start, changes, env>>

\* A run of the command.
NextMain ==
    \/ \E arg \in Args : Expand(arg)
    \/ \E verbose \in BOOLEAN : MainResolve(verbose)
    \/ MainNext

SpecMain == InitMain /\ [][NextMain]_vars

\* One resolution sequence over a filesystem that changes under it.
NextDyn ==
    \/ \E p \in StartPaths : Resolve(1, p)
    \/ NextCall(1)
    \/ \E n \in Nodes, e \in Entries : Change(n, e)

SpecDyn == InitDyn /\ [][NextDyn]_vars

(***************************************************************************)
(* Vocabulary of the properties.                                           *)
(***************************************************************************)
\* The path made of the components cs, as a PathBuf pushed together.
RECURSIVE BuildPath(_)
BuildPath(cs) == IF cs = <<>> THEN <<>> ELSE push(BuildPath(Front(cs)), <<Last(cs)>>)

\* The prefix of p of k components.
PrefixOf(p, k) == BuildPath(SubSeq(Components(p), 1, k))

\* What a probe of q finds.
Status(f, q) ==
    LET m == symlink_metadata(f, q)
    IN  IF m.err = "ENOENT" THEN "missing"
        ELSE IF m.err # "none" THEN "error"
        ELSE IF m.entry.kind = "link" THEN "link"
        ELSE "plain"

\* Scanning left to right, a prefix is missing before any is a link (or fails).
MissingFirst(f, p) ==
    \E k \in 1..Len(Components(p)) :
        /\ Status(f, PrefixOf(p, k)) = "missing"
        /\ \A j \in 1..(k - 1) : Status(f, PrefixOf(p, j)) = "plain"

\* Every prefix of p exists and none is a link.
AllPlain(f, p) ==
    \A k \in 1..Len(Components(p)) : Status(f, PrefixOf(p, k)) = "plain"

\* The last call of next() on iterator i searched the path from[i].
Searched(i) == calls[i] > 0 /\ probed[i] # <<>>

(***************************************************************************)
(* C1: when the scan of the cursor meets a missing prefix before any link, *)
(* that call of next() returns a NotLink hop carrying the whole cursor it  *)
(* started from (not the missing prefix), nothing is written to stderr and *)
(* the iterator is done.                                                   *)
(***************************************************************************)
C1_MissingPrefixIsTerminal ==
    \A i \in Its :
        (Searched(i) /\ MissingFirst(fs, from[i])) =>
            /\ ret[i] = NotLink(from[i])
            /\ Last(out[i]) = NotLink(from[i])
            /\ errs[i] = 0
            /\ it[i].done

\* /x/y with /x missing: the hop carries /x/y although only /x was probed.
C1_Witness ==
    /\ Searched(1)
    /\ MissingFirst(fs, from[1])
    /\ Len(probed[1]) < Len(Components(from[1]))
    /\ ret[1] = NotLink(from[1])
    /\ Last(probed[1]) # from[1]

(***************************************************************************)
(* C2: after a probe failed with an error other than NotFound the iterator *)
(* is done.  The code leaves done unset: the statement is violated.        *)
(***************************************************************************)
C2_FatalErrorIsDone ==
    \A i \in Its : errs[i] > 0 => it[i].done

(***************************************************************************)
(* C3: a starting path all of whose prefixes exist and none of which is a  *)
(* link yields exactly one hop, a NotLink, whose path is the starting path *)
(* (as paths compare: component by component), however often next() is    *)
(* called.                                                                 *)
(***************************************************************************)
C3_NoLinkOneTerminal ==
    \A i \in Its :
        (it[i].live /\ calls[i] > 0 /\ AllPlain(fs, start[i])) =>
            /\ Len(out[i]) = 1
            /\ out[i][1].kind = "NotLink"
            /\ Components(out[i][1].path) = Components(start[i])
            /\ it[i].done

C3_Witness ==
    /\ it[1].live /\ calls[1] >= 2
    /\ AllPlain(fs, start[1])
    /\ Len(Components(start[1])) >= 3
    /\ Len(out[1]) = 1 /\ out[1][1].kind = "NotLink"

\* A NotLink hop has been emitted by iterator i.
TerminalEmitted(i) == out[i] # <<>> /\ Last(out[i]).kind = "NotLink"

(***************************************************************************)
(* C4: once a NotLink hop has been emitted, every later call of next()     *)
(* returns None, probes nothing, emits nothing and leaves the iterator as  *)
(* it was, whatever has become of the filesystem.                          *)
(***************************************************************************)
C4_DoneIsAbsorbing ==
    [][\A i \in Its :
          (TerminalEmitted(i) /\ calls'[i] = calls[i] + 1) =>
              /\ ret'[i] = None
              /\ it'[i] = it[i]
              /\ out'[i] = out[i]
              /\ probed'[i] = <<>>]_vars

\* After the NotLink hop the cursor was made a link, and next() still
\* returned None.
C4_Witness ==
    /\ TerminalEmitted(1)
    /\ calls[1] >= 2 /\ ret[1] = None /\ probed[1] = <<>>
    /\ changes > 0
    /\ Status(fs, it[1].path) = "link"

(***************************************************************************)
(* C5: after a Symlink hop the cursor (the resolved path) is the parent of *)
(* source joined with target, then with suffix if suffix has a component:  *)
(* an absolute target T gives T[/suffix], a relative target T gives        *)
(* parent(source)/T[/suffix].                                              *)
(***************************************************************************)
C5_ResolvedIsParentTargetSuffix ==
    \A i \in Its :
        (Searched(i) /\ ret[i].kind = "Symlink") =>
            LET h == ret[i]
                resolved == Components(it[i].path)
            IN  IF is_absolute(h.target)
                THEN resolved = Components(h.target) \o Components(h.suffix)
                ELSE resolved = Front(Components(h.source)) \o Components(h.target)
                                    \o Components(h.suffix)

\* The link /b with the relative target a resolves to /a, not to b/a.
C5_Witness ==
    /\ Searched(1)
    /\ ret[1] = Symlink(<<"/", "b">>, <<"a">>, <<>>)
    /\ it[1].path = <<"/", "a">>

(***************************************************************************)
(* C6: in a Symlink hop found in the cursor P, the components of source    *)
(* followed by those of suffix are the components of P: suffix holds what  *)
(* follows the link, never the link, and is empty exactly when the link is *)
(* the last component of P.                                                *)
(***************************************************************************)
C6_SourceThenSuffixIsCursor ==
    \A i \in Its :
        (Searched(i) /\ ret[i].kind = "Symlink") =>
            LET h == ret[i]
                P == Components(from[i])
                k == Len(Components(h.source))
            IN  /\ Components(h.source) \o Components(h.suffix) = P
                /\ Components(h.suffix) = SubSeq(P, k + 1, Len(P))
                /\ (h.suffix = <<>>) <=> (k = Len(P))

\* /a/b/a with /a a link to b: suffix b/a, resolved /b/b/a.
C6_Witness ==
    /\ Searched(1)
    /\ from[1] = <<"/", "a", "/", "b", "/", "a">>
    /\ ret[1] = Symlink(<<"/", "a">>, <<"b">>, <<"b", "/", "a">>)
    /\ it[1].path = <<"/", "b", "/", "b", "/", "a">>

\* The results of n calls of next() on iterator state self, run alone.
RECURSIVE Run(_, _, _)
Run(f, self, n) ==
    IF n = 0 THEN <<>>
    ELSE LET r == next(f, self) IN <<r>> \o Run(f, r.self, n - 1)

\* The hops among those results.
Hops(rs) == SelectSeq([k \in 1..Len(rs) |-> rs[k].item],
                      LAMBDA x : x.kind \in {"Symlink", "NotLink"})

Links(f) == {n \in Nodes : f[n].kind = "link"}

\* Acyclic layout for the resolution of p: however far it is run, no link
\* is found twice, so no resolved path leads back to a link already probed.
\* (With more hops than links some link has been found twice.)
Acyclic(f, p) ==
    LET hs == Hops(Run(f, resolve(p), Cardinality(Links(f)) + 1))
    IN  \A j, k \in 1..Len(hs) :
            (j < k /\ hs[j].kind = "Symlink" /\ hs[k].kind = "Symlink") =>
                KernelNames(hs[j].source) # KernelNames(hs[k].source)

(***************************************************************************)
(* C7: on a static filesystem whose layout is acyclic for the starting     *)
(* path, a consumer that keeps calling next() eventually receives a        *)
(* NotLink hop with the iterator done, unless a fatal I/O error occurs.    *)
(***************************************************************************)
C7_AcyclicTerminates ==
    \A i \in Its :
        (it[i].live /\ Acyclic(fs, start[i]))
            ~> ((TerminalEmitted(i) /\ it[i].done) \/ errs[i] > 0)

\* A chain of two links and then the terminal hop.
C7_Witness ==
    /\ it[1].live /\ Acyclic(fs, start[1])
    /\ Len(out[1]) = 3
    /\ out[1][1].kind = "Symlink" /\ out[1][2].kind = "Symlink"
    /\ TerminalEmitted(1) /\ it[1].done

\* The entry /x is a link whose target, read from the root, names /y.
LinkTo(f, x, y) ==
    /\ f[<<x>>].kind = "link"
    /\ KernelNames(f[<<x>>].target) = <<y>>

(***************************************************************************)
(* C8: with /x a link to /y and /y a link to /x, the sequence started at   *)
(* /x never emits a NotLink hop and is never done: every call of next()    *)
(* emits a Symlink hop and the cursor alternates between /x and /y.        *)
(***************************************************************************)
C8_CycleNeverTerminates ==
    \A i \in Its : \A x, y \in Names :
        (it[i].live /\ x # y /\ LinkTo(fs, x, y) /\ LinkTo(fs, y, x)
            /\ start[i] = <<Sep, x>>) =>
            /\ ~it[i].done
            /\ errs[i] = 0
            /\ Len(out[i]) = calls[i]
            /\ \A k \in 1..Len(out[i]) :
                  /\ out[i][k].kind = "Symlink"
                  /\ out[i][k].source = (IF k % 2 = 1 THEN <<Sep, x>> ELSE <<Sep, y>>)
            /\ it[i].path = (IF calls[i] % 2 = 0 THEN <<Sep, x>> ELSE <<Sep, y>>)

\* Four hops round the cycle /a -> /b -> /a, back at /a and not done.
C8_Witness ==
    /\ it[1].live /\ start[1] = <<"/", "a">>
    /\ LinkTo(fs, "a", "b") /\ LinkTo(fs, "b", "a")
    /\ calls[1] >= 4 /\ Len(out[1]) = calls[1]
    /\ it[1].path = <<"/", "a">> /\ ~it[1].done

(***************************************************************************)
(* C9: hops are computed on demand.  resolve() probes nothing: a fresh     *)
(* iterator holds the starting path, not done, with no probe, no search    *)
(* and no hop.  After k calls of next() at most k searches were made and   *)
(* at most k hops exist, and a call probes only prefixes of the cursor it  *)
(* started from, never a path of a later hop.                              *)
(***************************************************************************)
C9_HopsOnDemand ==
    \A i \in Its :
        /\ nfind[i] <= calls[i]
        /\ Len(out[i]) <= calls[i]
        /\ (it[i].live /\ calls[i] = 0) =>
              /\ it[i].path = start[i] /\ ~it[i].done
              /\ probed[i] = <<>> /\ ret[i] = NoCall
        /\ Len(probed[i]) <= Len(Components(from[i]))
        /\ \A k \in 1..Len(probed[i]) : probed[i][k] = PrefixOf(from[i], k)

\* Two calls, two searches, and the cursor is a link that no one has probed.
C9_Witness ==
    /\ calls[1] = 2 /\ nfind[1] = 2 /\ Len(out[1]) = 2
    /\ ret[1].kind = "Symlink"
    /\ Status(fs, it[1].path) = "link"
    /\ \A k \in 1..Len(probed[1]) : probed[1][k] # it[1].path

\* Iterator i is where calls[i] calls of next() bring it when run alone.
AsAlone(i) ==
    LET rs == Run(fs, resolve(start[i]), calls[i])
    IN  /\ out[i] = Hops(rs)
        /\ calls[i] > 0 =>
              /\ it[i].path = rs[calls[i]].self.path
              /\ it[i].done = rs[calls[i]].self.done
              /\ ret[i] = rs[calls[i]].item

(***************************************************************************)
(* C10: two sequences over one static filesystem share nothing: under any  *)
(* interleaving of their calls each has emitted the hops, and holds the    *)
(* cursor and flag, it has after as many calls run alone, and a call on    *)
(* one leaves the other's cursor and flag as they were.                    *)
(***************************************************************************)
C10_SequencesIndependent ==
    /\ [](\A i \in Its : it[i].live => AsAlone(i))
    /\ [][\A i, j \in Its :
             (i # j /\ calls'[i] = calls[i] + 1) => it'[j] = it[j]]_vars

\* Both sequences are under way, on different cursors, one of them done.
C10_Witness ==
    /\ it[1].live /\ it[2].live
    /\ calls[1] >= 2 /\ calls[2] >= 1
    /\ Len(out[1]) >= 2 /\ Len(out[2]) >= 1
    /\ it[1].path # it[2].path
    /\ it[1].done /\ ~it[2].done

\* The directories of PATH in which the candidate is a regular file.
Matches(e, f, cand) ==
    IF e.set THEN {k \in 1..Len(e.dirs) : is_file(f, push(e.dirs[k], cand))} ELSE {}

Expanded == proc.pc # "none"

(***************************************************************************)
(* C12: for a candidate of exactly one component that some directory of    *)
(* PATH holds as a regular file, expand_path returns dir/candidate for the *)
(* first such directory in the order of PATH, never a later one.           *)
(***************************************************************************)
C12_FirstMatchInPathOrder ==
    (Expanded /\ Len(Components(proc.arg)) = 1 /\ Matches(env, fs, proc.arg) # {}) =>
        \E k \in Matches(env, fs, proc.arg) :
            /\ \A j \in Matches(env, fs, proc.arg) : k <= j
            /\ proc.path = push(env.dirs[k], proc.arg)

\* Two directories of PATH hold the file, and the first one listed wins.
C12_Witness ==
    /\ Expanded /\ Len(Components(proc.arg)) = 1
    /\ Cardinality(Matches(env, fs, proc.arg)) = 2
    /\ proc.path = push(env.dirs[1], proc.arg)
    /\ proc.path # push(env.dirs[2], proc.arg)

(***************************************************************************)
(* C13: expand_path returns its input unchanged when the input has more    *)
(* than one component, and when it has one component that no directory of  *)
(* PATH holds as a regular file, PATH unset included.                      *)
(***************************************************************************)
C13_PassThrough ==
    Expanded =>
        /\ Len(Components(proc.arg)) > 1 => proc.path = proc.arg
        /\ (Len(Components(proc.arg)) = 1 /\ Matches(env, fs, proc.arg) = {})
              => proc.path = proc.arg

\* a/b is left alone although /a/b is a regular file and / is in PATH.
C13_Witness ==
    /\ Expanded
    /\ proc.arg = <<"a", "/", "b">>
    /\ env.set /\ Matches(env, fs, proc.arg) # {}
    /\ proc.path = proc.arg

\* The process has ended.
Exited == proc.pc = "exit"

\* The lines main() prints for the hops of out[1].
RECURSIVE HopLines(_, _)
HopLines(hops, verbose) ==
    IF hops = <<>> THEN 0
    ELSE (IF verbose /\ Head(hops).kind = "Symlink" THEN 2 ELSE 1)
         + HopLines(Tail(hops), verbose)

(***************************************************************************)
(* C11: the process ends with status 0 when the sequence was consumed      *)
(* without a fatal error and with another status when a probe failed with  *)
(* an error other than NotFound; the hops before the failure are printed.  *)
(* main() ends with Ok(()) in both cases: the statement is violated.       *)
(***************************************************************************)
C11_ExitStatus ==
    Exited =>
        /\ proc.lines = 1 + HopLines(out[1], proc.verbose)
        /\ errs[1] = 0 => proc.status = 0
        /\ errs[1] > 0 => proc.status # 0

(***************************************************************************)
(* C14: a search probes the prefixes of the cursor from the left, one more *)
(* component each time and each once, and goes on only past a prefix that  *)
(* exists and is not a link.  In a Symlink hop source is the last prefix   *)
(* probed and the shortest prefix of the cursor that is a link: no prefix  *)
(* longer than source is probed.                                           *)
(***************************************************************************)
C14_StopsAtFirstLink ==
    \A i \in Its :
        Searched(i) =>
            LET P == Components(from[i])
                n == Len(probed[i])
            IN  /\ n <= Len(P)
                /\ \A k \in 1..n : probed[i][k] = PrefixOf(from[i], k)
                /\ \A k \in 1..(n - 1) : Status(fs, probed[i][k]) = "plain"
                /\ ret[i].kind = "Symlink" =>
                      /\ ret[i].source = probed[i][n]
                      /\ Len(Components(ret[i].source)) = n
                      /\ Status(fs, ret[i].source) = "link"
                      /\ \A k \in 1..Len(P) :
                            Status(fs, PrefixOf(from[i], k)) = "link" => k >= n

\* A longer prefix of the cursor is a link too, and was not probed.
C14_Witness ==
    /\ Searched(1) /\ ret[1].kind = "Symlink"
    /\ Len(probed[1]) >= 2
    /\ \E k \in (Len(probed[1]) + 1)..Len(Components(from[1])) :
          Status(fs, PrefixOf(from[1], k)) = "link"

\* The hop h is what a search of the path p gives: the components of p are
\* those of source and suffix of a Symlink, those of the path of a NotLink.
ComputedFrom(h, p) ==
    IF h.kind = "Symlink"
    THEN Components(h.source) \o Components(h.suffix) = Components(p)
    ELSE Components(h.path) = Components(p)

\* The cursor from which the hop k of iterator i has to be computed.
CursorBefore(i, k) ==
    IF k = 1 THEN start[i] ELSE SymlinkPath_resolve(out[i][k - 1])

(***************************************************************************)
(* C15: the first hop is computed from the starting path and the hop after *)
(* a Symlink hop h from the resolved path of h, which is the very cursor   *)
(* the call started from; while the iterator is not done its cursor is the *)
(* starting path (no hop yet) or the resolved path of the last hop, a      *)
(* Symlink.                                                                *)
(***************************************************************************)
C15_CursorChainsHops ==
    \A i \in Its :
        it[i].live =>
            /\ \A k \in 1..Len(out[i]) :
                  /\ ComputedFrom(out[i][k], CursorBefore(i, k))
                  /\ k > 1 /\ out[i][k - 1].kind = "Symlink" /\ out[i][k].kind = "NotLink"
                        => Components(out[i][k].path)
                             = Components(SymlinkPath_resolve(out[i][k - 1]))
            /\ ret[i].kind \in {"Symlink", "NotLink"} =>
                  from[i] = CursorBefore(i, Len(out[i]))
            /\ ~it[i].done =>
                  /\ it[i].path = CursorBefore(i, Len(out[i]) + 1)
                  /\ out[i] # <<>> => Last(out[i]).kind = "Symlink"

\* Two links one after the other: the second is found in the resolved path
\* of the first, and the cursor is the resolved path of the second.
C15_Witness ==
    /\ it[1].live /\ ~it[1].done
    /\ Len(out[1]) = 2
    /\ out[1][1].kind = "Symlink" /\ out[1][2].kind = "Symlink"
    /\ from[1] = SymlinkPath_resolve(out[1][1])
    /\ from[1] # start[1]
    /\ it[1].path = SymlinkPath_resolve(out[1][2])
    /\ it[1].path # from[1]

(***************************************************************************)
(* C16: a call of next() on an iterator that is not done and whose cursor  *)
(* has only prefixes that exist and are no links (find_symlink reports a   *)
(* NotLink) returns that NotLink hop, appends it to the sequence and sets  *)
(* done.  So every hop of a sequence but the last is a Symlink, and a      *)
(* sequence with a NotLink hop is done.                                    *)
(***************************************************************************)
C16_TerminalEmittedAndLast ==
    /\ [](\A i \in Its :
            /\ \A k \in 1..(Len(out[i]) - 1) : out[i][k].kind = "Symlink"
            /\ TerminalEmitted(i) => it[i].done)
    /\ [][\A i \in Its :
            (calls'[i] = calls[i] + 1 /\ ~it[i].done /\ AllPlain(fs, it[i].path)) =>
                /\ ret'[i].kind = "NotLink"
                /\ Components(ret'[i].path) = Components(it[i].path)
                /\ out'[i] = Append(out[i], ret'[i])
                /\ it'[i].done]_vars

\* A link, then the NotLink hop that find_symlink reported, in the call
\* that found it.
C16_Witness ==
    /\ Len(out[1]) = 2 /\ calls[1] = 2
    /\ out[1][1].kind = "Symlink"
    /\ AllPlain(fs, from[1]) /\ Len(Components(from[1])) >= 2
    /\ ret[1].kind = "NotLink" /\ Last(out[1]) = ret[1]
    /\ it[1].done

\* Scanning left to right, a probe fails with an error other than ENOENT
\* before any prefix is a link.
ErrorFirst(f, p) ==
    \E k \in 1..Len(Components(p)) :
        /\ Status(f, PrefixOf(p, k)) = "error"
        /\ \A j \in 1..(k - 1) : Status(f, PrefixOf(p, j)) = "plain"

(***************************************************************************)
(* C17: a call of next() whose search fails with an error other than       *)
(* NotFound leaves the cursor and the done flag as they were: it writes    *)
(* one line to stderr, returns None and emits no hop.                      *)
(***************************************************************************)
C17_ErrorLeavesIteratorUnchanged ==
    [][\A i \in Its :
          (calls'[i] = calls[i] + 1 /\ ~it[i].done /\ ErrorFirst(fs, it[i].path)) =>
              /\ it'[i] = it[i]
              /\ ret'[i] = None
              /\ out'[i] = out[i]
              /\ errs'[i] = errs[i] + 1]_vars

\* After a Symlink hop the search of the resolved path failed twice: the
\* cursor is still that path and the iterator is still not done.
C17_Witness ==
    /\ calls[1] = 3 /\ errs[1] = 2
    /\ Len(out[1]) = 1 /\ out[1][1].kind = "Symlink"
    /\ ErrorFirst(fs, from[1])
    /\ ret[1] = None
    /\ it[1].path = from[1] /\ ~it[1].done

(***************************************************************************)
(* C18: the unwrap of source.parent() never panics: the source of every    *)
(* Symlink hop has at least one component, its last component is a name    *)
(* (not the root), and its parent exists; the parent of a source of one    *)
(* relative component is the empty path.                                   *)
(***************************************************************************)
C18_ParentOfSourceExists ==
    \A i \in Its :
        /\ ret[i] # Panic
        /\ \A k \in 1..Len(out[i]) :
              out[i][k].kind = "Symlink" =>
                  LET cs == Components(out[i][k].source)
                  IN  /\ cs # <<>>
                      /\ Last(cs) \in Names
                      /\ parent(out[i][k].source).some
                      /\ Components(parent(out[i][k].source).path) = Front(cs)
                      /\ (Len(cs) = 1) => parent(out[i][k].source).path = <<>>

\* The link b, found in a relative cursor: its parent is the empty path and
\* the resolved path is the target alone.
C18_Witness ==
    /\ ret[1].kind = "Symlink"
    /\ ret[1].source = <<"b">>
    /\ parent(ret[1].source) = [some |-> TRUE, path |-> <<>>]
    /\ ~is_absolute(ret[1].target)
    /\ Components(it[1].path) = Components(ret[1].target) \o Components(ret[1].suffix)

====
